---- MODULE Spec2Model ----
(***************************************************************************)
(* ExpiringHashMap of src/src/collections.rs: a HashMap of                  *)
(* key -> (last_access, value) together with a BinaryHeap of Access         *)
(* records (instant, key) ordered earliest instant first, and a lazy        *)
(* cleanup pass run at the start of insert and get.                         *)
(*                                                                         *)
(* Time is the reading of Instant::now(), counted in ticks from the         *)
(* earliest representable Instant (0).  An Option is a sequence of length   *)
(* at most one: <<>> is None and <<x>> is Some(x).                          *)
(***************************************************************************)
EXTENDS Integers, Sequences, FiniteSets, Bags, TLC

\* ---------------------------------------------------------------- bounds
MaxTtl == 3       \* durations 0..MaxTtl are given to new()
MaxRun == 4       \* the clock is observed up to the reading duration + MaxRun
MaxLog == 2       \* access_log holds at most this many records
MaxSkew == 1      \* ticks that may pass between two Instant::now() of one call

Keys == {"a", "b"}
Vals == {1, 2}
Times == 0..(MaxTtl + MaxRun)

None == <<>>
Some(x) == <<x>>

VARIABLES
    map,          \* ExpiringHashMap.map: key -> [last_access, value]
    access_log,   \* ExpiringHashMap.access_log: bag of [instant, key]
    duration,     \* ExpiringHashMap.duration
    clock,        \* the reading Instant::now() gives at present
    last,         \* the last call: its name, arguments, clock sample and result
    history       \* per key: when it was last accessed, and the value inserted

vars == <<map, access_log, duration, clock, last, history>>

\* ------------------------------------------------------------ the heap
\* Access and its Ord: records compare by instant alone, reversed, so the
\* BinaryHeap (a max-heap) keeps an earliest instant on top.
Access(instant, key) == [instant |-> instant, key |-> key]

\* peek, had Ord for Access not reversed the comparison: a latest record.
peek_latest(log) ==
    {r \in BagToSet(log) : \A s \in BagToSet(log) : r.instant >= s.instant}

\* peek, had Ord for Access compared the keys instead of the instants: the
\* records of one key are on top, whatever their instants.
peek_by_key(log) ==
    {r \in BagToSet(log) : r.key = CHOOSE k \in {x.key : x \in BagToSet(log)} : TRUE}

\* BinaryHeap::peek: a record no other record precedes.  Which of several
\* records with the same instant is on top depends on the heap's layout.
peek(log) ==
    {r \in BagToSet(log) : \A s \in BagToSet(log) : r.instant <= s.instant}

push(log, r) == log (+) SetToBag({r})

pop(log, r) == log (-) SetToBag({r})

\* --------------------------------------------------------------- the map
Value(last_access, value) == [last_access |-> last_access, value |-> value]

map_insert(m, k, e) == [j \in DOMAIN m \cup {k} |-> IF j = k THEN e ELSE m[j]]

map_remove(m, k) == [j \in DOMAIN m \ {k} |-> m[j]]

map_get(m, k) == IF k \in DOMAIN m THEN Some(m[k]) ELSE None

\* Instant::checked_sub: None when the result precedes the earliest Instant.
checked_sub(now, d) == IF now - d >= 0 THEN Some(now - d) ELSE None

\* ---------------------------------------------------------------- cleanup
\* The loop, had it trusted the popped record instead of looking up the
\* entry's last_access: a due record evicts its key.
RECURSIVE cleanup_loop_blind(_, _, _)
cleanup_loop_blind(m, log, deadline) ==
    LET due == {r \in peek(log) : ~(r.instant > deadline)}
    IN  IF due = {}
        THEN {[map |-> m, access_log |-> log]}
        ELSE UNION { cleanup_loop_blind(map_remove(m, r.key), pop(log, r), deadline)
                     : r \in due }

\* The loop, had it discarded a due record of a recently accessed entry
\* instead of putting one back.
RECURSIVE cleanup_loop_no_requeue(_, _, _)
cleanup_loop_no_requeue(m, log, deadline) ==
    LET due == {r \in peek(log) : ~(r.instant > deadline)}
    IN  IF due = {}
        THEN {[map |-> m, access_log |-> log]}
        ELSE UNION {
            LET rest == pop(log, r)
                key == r.key
            IN  IF key \in DOMAIN m
                THEN IF m[key].last_access > deadline
                     THEN cleanup_loop_no_requeue(m, rest, deadline)
                     ELSE cleanup_loop_no_requeue(map_remove(m, key), rest, deadline)
                ELSE cleanup_loop_no_requeue(m, rest, deadline)
            : r \in due }

\* The loop, had it been an if: one due record is reconciled, then the pass
\* returns.
cleanup_loop_one_pop(m, log, deadline) ==
    LET due == {r \in peek(log) : ~(r.instant > deadline)}
    IN  IF due = {}
        THEN {[map |-> m, access_log |-> log]}
        ELSE {
            LET rest == pop(log, r)
                key == r.key
            IN  IF key \in DOMAIN m
                THEN IF m[key].last_access > deadline
                     THEN [map |-> m,
                           access_log |-> push(rest, Access(m[key].last_access, key))]
                     ELSE [map |-> map_remove(m, key), access_log |-> rest]
                ELSE [map |-> m, access_log |-> rest]
            : r \in due }

\* The loop, had it put two records back for a due record of a recently
\* accessed entry.
RECURSIVE cleanup_loop_requeue_twice(_, _, _)
cleanup_loop_requeue_twice(m, log, deadline) ==
    LET due == {r \in peek(log) : ~(r.instant > deadline)}
    IN  IF due = {}
        THEN {[map |-> m, access_log |-> log]}
        ELSE UNION {
            LET rest == pop(log, r)
                key == r.key
                back == Access(m[key].last_access, key)
            IN  IF key \in DOMAIN m
                THEN IF m[key].last_access > deadline
                     THEN cleanup_loop_requeue_twice(m,
                            push(push(rest, back), back), deadline)
                     ELSE cleanup_loop_requeue_twice(map_remove(m, key), rest, deadline)
                ELSE cleanup_loop_requeue_twice(m, rest, deadline)
            : r \in due }

\* The loop, had it discarded the due record of an expired entry and left
\* the entry in the map.
RECURSIVE cleanup_loop_keep_expired(_, _, _)
cleanup_loop_keep_expired(m, log, deadline) ==
    LET due == {r \in peek(log) : ~(r.instant > deadline)}
    IN  IF due = {}
        THEN {[map |-> m, access_log |-> log]}
        ELSE UNION {
            LET rest == pop(log, r)
                key == r.key
            IN  IF key \in DOMAIN m /\ m[key].last_access > deadline
                THEN cleanup_loop_keep_expired(m,
                        push(rest, Access(m[key].last_access, key)), deadline)
                ELSE cleanup_loop_keep_expired(m, rest, deadline)
            : r \in due }

\* The loop, had it returned on popping a record whose key has no entry
\* instead of going on with the next record.
RECURSIVE cleanup_loop_stop_at_orphan(_, _, _)
cleanup_loop_stop_at_orphan(m, log, deadline) ==
    LET due == {r \in peek(log) : ~(r.instant > deadline)}
    IN  IF due = {}
        THEN {[map |-> m, access_log |-> log]}
        ELSE UNION {
            LET rest == pop(log, r)
                key == r.key
            IN  IF key \in DOMAIN m
                THEN IF m[key].last_access > deadline
                     THEN cleanup_loop_stop_at_orphan(m,
                            push(rest, Access(m[key].last_access, key)), deadline)
                     ELSE cleanup_loop_stop_at_orphan(map_remove(m, key), rest, deadline)
                ELSE {[map |-> m, access_log |-> rest]}
            : r \in due }

\* The loop, had it compared with < where the code compares with <=: a
\* record is due, and an entry expired, only strictly before the deadline.
RECURSIVE cleanup_loop_strict(_, _, _)
cleanup_loop_strict(m, log, deadline) ==
    LET due == {r \in peek(log) : r.instant < deadline}
    IN  IF due = {}
        THEN {[map |-> m, access_log |-> log]}
        ELSE UNION {
            LET rest == pop(log, r)
                key == r.key
            IN  IF key \in DOMAIN m
                THEN IF m[key].last_access >= deadline
                     THEN cleanup_loop_strict(m,
                            push(rest, Access(m[key].last_access, key)), deadline)
                     ELSE cleanup_loop_strict(map_remove(m, key), rest, deadline)
                ELSE cleanup_loop_strict(m, rest, deadline)
            : r \in due }

\* The while loop of cleanup, from the state (m, log): the set of states
\* [map, access_log] it can return in, one per way of breaking ties.
RECURSIVE cleanup_loop(_, _, _)
cleanup_loop(m, log, deadline) ==
    LET due == {r \in peek(log) : ~(r.instant > deadline)}
    IN  IF due = {}
        THEN {[map |-> m, access_log |-> log]}
        ELSE UNION {
            LET rest == pop(log, r)
                key == r.key
            IN  IF key \in DOMAIN m
                THEN IF m[key].last_access > deadline
                     THEN cleanup_loop(m,
                            push(rest, Access(m[key].last_access, key)), deadline)
                     ELSE cleanup_loop(map_remove(m, key), rest, deadline)
                ELSE cleanup_loop(m, rest, deadline)
            : r \in due }

\* The while loop of cleanup once more, counting: besides the state it
\* returns in, the number of iterations it has made (one pop each), the
\* records it has put back, and whether it has popped a record it had put
\* back.  run is what was counted before the iteration at hand.
NoIteration == [iterations |-> 0, requeued |-> EmptyBag, again |-> FALSE]

Iteration(run, r, back) ==
    [iterations |-> run.iterations + 1,
     requeued |-> IF r \in BagToSet(run.requeued)
                  THEN (run.requeued (-) SetToBag({r})) (+) back
                  ELSE run.requeued (+) back,
     again |-> run.again \/ r \in BagToSet(run.requeued)]

\* The counted loop, had it put a record back also for the entry it evicts.
RECURSIVE cleanup_iterations_evict_requeue(_, _, _, _)
cleanup_iterations_evict_requeue(m, log, deadline, run) ==
    LET due == {r \in peek(log) : ~(r.instant > deadline)}
    IN  IF due = {}
        THEN {[map |-> m, access_log |-> log, run |-> run]}
        ELSE UNION {
            LET rest == pop(log, r)
                key == r.key
                back == Access(m[key].last_access, key)
            IN  IF key \in DOMAIN m
                THEN IF m[key].last_access > deadline
                     THEN cleanup_iterations_evict_requeue(m, push(rest, back),
                            deadline, Iteration(run, r, SetToBag({back})))
                     ELSE cleanup_iterations_evict_requeue(map_remove(m, key),
                            push(rest, back), deadline,
                            Iteration(run, r, SetToBag({back})))
                ELSE cleanup_iterations_evict_requeue(m, rest, deadline,
                        Iteration(run, r, EmptyBag))
            : r \in due }

\* The counted loop, had it put a record popped before the deadline back
\* with the deadline as its instant rather than the entry's last_access.
RECURSIVE cleanup_iterations_requeue_due(_, _, _, _)
cleanup_iterations_requeue_due(m, log, deadline, run) ==
    LET due == {r \in peek(log) : ~(r.instant > deadline)}
    IN  IF due = {}
        THEN {[map |-> m, access_log |-> log, run |-> run]}
        ELSE UNION {
            LET rest == pop(log, r)
                key == r.key
            IN  IF key \in DOMAIN m
                THEN IF m[key].last_access > deadline
                     THEN LET back == IF r.instant < deadline
                                      THEN Access(deadline, key)
                                      ELSE Access(m[key].last_access, key)
                          IN  cleanup_iterations_requeue_due(m, push(rest, back),
                                deadline, Iteration(run, r, SetToBag({back})))
                     ELSE cleanup_iterations_requeue_due(map_remove(m, key), rest,
                            deadline, Iteration(run, r, EmptyBag))
                ELSE cleanup_iterations_requeue_due(m, rest, deadline,
                        Iteration(run, r, EmptyBag))
            : r \in due }

RECURSIVE cleanup_iterations(_, _, _, _)
cleanup_iterations(m, log, deadline, run) ==
    LET due == {r \in peek(log) : ~(r.instant > deadline)}
    IN  IF due = {}
        THEN {[map |-> m, access_log |-> log, run |-> run]}
        ELSE UNION {
            LET rest == pop(log, r)
                key == r.key
            IN  IF key \in DOMAIN m
                THEN IF m[key].last_access > deadline
                     THEN LET back == Access(m[key].last_access, key)
                          IN  cleanup_iterations(m, push(rest, back), deadline,
                                Iteration(run, r, SetToBag({back})))
                     ELSE cleanup_iterations(map_remove(m, key), rest, deadline,
                            Iteration(run, r, EmptyBag))
                ELSE cleanup_iterations(m, rest, deadline,
                        Iteration(run, r, EmptyBag))
            : r \in due }

\* cleanup at clock reading now: the states the pass can return in; none when
\* the deadline is not representable, where the expect panics.
cleanup(m, log, now) ==
    LET deadline == checked_sub(now, duration)
    IN  IF deadline = None
        THEN {}
        ELSE cleanup_loop(m, log, deadline[1])

cleanup_panics(now) == checked_sub(now, duration) = None

\* ------------------------------------------------------------- the calls
\* Each call as the set of [map, access_log, ret, evicted] it can return
\* with, from the state (m, log): evicted are the keys its cleanup pass took
\* out of the map.  now1 is the clock reading cleanup takes, now2 the reading
\* the call takes afterwards to stamp the entry.
\* insert, had it stamped every entry of the map with the new reading.
insert_touch_all(m, log, k, v, now1, now2) ==
    { LET prev == map_get(c.map, k)
          all == [j \in DOMAIN c.map |-> Value(now2, c.map[j].value)]
      IN  [map |-> map_insert(all, k, Value(now2, v)),
           access_log |-> IF prev = None
                          THEN push(c.access_log, Access(now2, k))
                          ELSE c.access_log,
           ret |-> IF prev = None THEN None ELSE Some(prev[1].value),
           evicted |-> DOMAIN m \ DOMAIN c.map]
      : c \in cleanup(m, log, now1) }

\* insert, had it stamped the entry and the record with the reading its
\* cleanup pass took instead of reading the clock again.
insert_stamp_first(m, log, k, v, now1, now2) ==
    { LET prev == map_get(c.map, k)
      IN  [map |-> map_insert(c.map, k, Value(now1, v)),
           access_log |-> IF prev = None
                          THEN push(c.access_log, Access(now1, k))
                          ELSE c.access_log,
           ret |-> IF prev = None THEN None ELSE Some(prev[1].value),
           evicted |-> DOMAIN m \ DOMAIN c.map]
      : c \in cleanup(m, log, now1) }

\* insert, had it not run the cleanup pass before writing to the map.
insert_no_cleanup(m, log, k, v, now1, now2) ==
    { LET prev == map_get(m, k)
      IN  [map |-> map_insert(m, k, Value(now2, v)),
           access_log |-> IF prev = None
                          THEN push(log, Access(now2, k))
                          ELSE log,
           ret |-> IF prev = None THEN None ELSE Some(prev[1].value),
           evicted |-> {}]
      : c \in cleanup(m, log, now1) }

\* insert, had it logged no record at all.
insert_never_push(m, log, k, v, now1, now2) ==
    { LET prev == map_get(c.map, k)
      IN  [map |-> map_insert(c.map, k, Value(now2, v)),
           access_log |-> c.access_log,
           ret |-> IF prev = None THEN None ELSE Some(prev[1].value),
           evicted |-> DOMAIN m \ DOMAIN c.map]
      : c \in cleanup(m, log, now1) }

\* insert, had it logged a record for every call, also when it overwrites.
insert_push_always(m, log, k, v, now1, now2) ==
    { LET prev == map_get(c.map, k)
      IN  [map |-> map_insert(c.map, k, Value(now2, v)),
           access_log |-> push(c.access_log, Access(now2, k)),
           ret |-> IF prev = None THEN None ELSE Some(prev[1].value),
           evicted |-> DOMAIN m \ DOMAIN c.map]
      : c \in cleanup(m, log, now1) }

\* insert, had it kept the value of an entry that exists (as
\* entry().or_insert does) while refreshing its last_access.
insert_keep_old(m, log, k, v, now1, now2) ==
    { LET prev == map_get(c.map, k)
      IN  [map |-> map_insert(c.map, k,
                      Value(now2, IF prev = None THEN v ELSE prev[1].value)),
           access_log |-> IF prev = None
                          THEN push(c.access_log, Access(now2, k))
                          ELSE c.access_log,
           ret |-> IF prev = None THEN None ELSE Some(prev[1].value),
           evicted |-> DOMAIN m \ DOMAIN c.map]
      : c \in cleanup(m, log, now1) }

\* insert, had it left the last_access of an entry that exists as it was.
insert_keep_stamp(m, log, k, v, now1, now2) ==
    { LET prev == map_get(c.map, k)
      IN  [map |-> map_insert(c.map, k,
                      Value(IF prev = None THEN now2 ELSE prev[1].last_access, v)),
           access_log |-> IF prev = None
                          THEN push(c.access_log, Access(now2, k))
                          ELSE c.access_log,
           ret |-> IF prev = None THEN None ELSE Some(prev[1].value),
           evicted |-> DOMAIN m \ DOMAIN c.map]
      : c \in cleanup(m, log, now1) }

insert(m, log, k, v, now1, now2) ==
    { LET prev == map_get(c.map, k)
      IN  [map |-> map_insert(c.map, k, Value(now2, v)),
           access_log |-> IF prev = None
                          THEN push(c.access_log, Access(now2, k))
                          ELSE c.access_log,
           ret |-> IF prev = None THEN None ELSE Some(prev[1].value),
           evicted |-> DOMAIN m \ DOMAIN c.map]
      : c \in cleanup(m, log, now1) }

\* get, had it not written the new reading into last_access.
get_stale(m, log, k, now1, now2) ==
    { [map |-> c.map, access_log |-> c.access_log,
       ret |-> IF k \in DOMAIN c.map THEN Some(c.map[k].value) ELSE None,
       evicted |-> DOMAIN m \ DOMAIN c.map]
      : c \in cleanup(m, log, now1) }

\* get, had it logged a record for every hit.
get_push_on_hit(m, log, k, now1, now2) ==
    { IF k \in DOMAIN c.map
      THEN [map |-> [c.map EXCEPT ![k].last_access = now2],
            access_log |-> push(c.access_log, Access(now2, k)),
            ret |-> Some(c.map[k].value),
            evicted |-> DOMAIN m \ DOMAIN c.map]
      ELSE [map |-> c.map, access_log |-> c.access_log, ret |-> None,
            evicted |-> DOMAIN m \ DOMAIN c.map]
      : c \in cleanup(m, log, now1) }

\* get, had it logged the access also when the key is missing.
get_push_on_miss(m, log, k, now1, now2) ==
    { IF k \in DOMAIN c.map
      THEN [map |-> [c.map EXCEPT ![k].last_access = now2],
            access_log |-> c.access_log,
            ret |-> Some(c.map[k].value),
            evicted |-> DOMAIN m \ DOMAIN c.map]
      ELSE [map |-> c.map, access_log |-> push(c.access_log, Access(now2, k)),
            ret |-> None, evicted |-> DOMAIN m \ DOMAIN c.map]
      : c \in cleanup(m, log, now1) }

get(m, log, k, now1, now2) ==
    { IF k \in DOMAIN c.map
      THEN [map |-> [c.map EXCEPT ![k].last_access = now2],
            access_log |-> c.access_log,
            ret |-> Some(c.map[k].value),
            evicted |-> DOMAIN m \ DOMAIN c.map]
      ELSE [map |-> c.map, access_log |-> c.access_log, ret |-> None,
            evicted |-> DOMAIN m \ DOMAIN c.map]
      : c \in cleanup(m, log, now1) }

\* remove, had it read the entry without taking it out of the map.
remove_keep(m, log, k) ==
    [map |-> m,
     access_log |-> log,
     ret |-> IF k \in DOMAIN m THEN Some(m[k].value) ELSE None,
     evicted |-> {}]

\* remove, had it checked the age of the entry and reported an expired one
\* as absent.
remove_if_live(m, log, k) ==
    [map |-> map_remove(m, k),
     access_log |-> log,
     ret |-> IF k \in DOMAIN m /\ clock - m[k].last_access < duration
             THEN Some(m[k].value)
             ELSE None,
     evicted |-> {}]

\* remove, had it also purged the records of the key from the access log.
remove_purge(m, log, k) ==
    [map |-> map_remove(m, k),
     access_log |-> [r \in {x \in BagToSet(log) : x.key # k} |-> CopiesIn(r, log)],
     ret |-> IF k \in DOMAIN m THEN Some(m[k].value) ELSE None,
     evicted |-> {}]

\* remove, had it run the cleanup pass first, as insert and get do.
remove_sweep(m, log, k) ==
    LET swept == cleanup(m, log, clock)
        c == IF swept = {}
             THEN [map |-> m, access_log |-> log]
             ELSE CHOOSE x \in swept : TRUE
    IN  [map |-> map_remove(c.map, k),
         access_log |-> c.access_log,
         ret |-> IF k \in DOMAIN c.map THEN Some(c.map[k].value) ELSE None,
         evicted |-> {}]

remove(m, log, k) ==
    [map |-> map_remove(m, k),
     access_log |-> log,
     ret |-> IF k \in DOMAIN m THEN Some(m[k].value) ELSE None,
     evicted |-> {}]

\* --------------------------------------------------------------- history
\* What the caller knows of a key without looking into the container: the
\* time of its true last access (its latest insert or successful get) and
\* the value of its latest insert.  remove forgets the key, and so does the
\* passing of more than duration since its last access: from then on no
\* reading of the clock is within duration of that access any more.
Forgotten == [touched_at |-> None, value |-> None]

Inserted(now, v) == [touched_at |-> Some(now), value |-> Some(v)]

Touched(h) == h.touched_at[1]

Lapse(hist, now) ==
    [k \in Keys |->
        IF hist[k] # Forgotten /\ now - Touched(hist[k]) > duration
        THEN Forgotten
        ELSE hist[k]]

\* The last call as its caller saw it, and what its cleanup pass evicted.
Call(op, k, panicked, r) ==
    [op |-> op, key |-> k, panicked |-> panicked, ret |-> r.ret,
     evicted |-> r.evicted]

Nothing == [ret |-> None, evicted |-> {}]

\* The last reading of the clock that is observed.
LastReading == duration + MaxRun

LaterReadings == {t \in clock..LastReading : t <= clock + MaxSkew}

\* ---------------------------------------------------------------- actions
\* ExpiringHashMap::new(duration) at boot; nothing has been called yet.
Init ==
    /\ map = << >>
    /\ access_log = EmptyBag
    /\ duration \in 0..MaxTtl
    /\ clock = 0
    /\ last = Call("new", "-", FALSE, Nothing)
    /\ history = [k \in Keys |-> Forgotten]

Panic(op, k) ==
    /\ cleanup_panics(clock)
    /\ last' = Call(op, k, TRUE, Nothing)
    /\ UNCHANGED <<map, access_log, duration, clock, history>>

Insert(k, v) ==
    \/ Panic("insert", k)
    \/ \E now2 \in LaterReadings :
       \E r \in insert(map, access_log, k, v, clock, now2) :
          /\ BagCardinality(r.access_log) <= MaxLog
          /\ map' = r.map
          /\ access_log' = r.access_log
          /\ clock' = now2
          /\ last' = Call("insert", k, FALSE, r)
          /\ history' = Lapse([history EXCEPT ![k] = Inserted(now2, v)], now2)
          /\ UNCHANGED duration

Get(k) ==
    \/ Panic("get", k)
    \/ \E now2 \in LaterReadings :
       \E r \in get(map, access_log, k, clock, now2) :
          /\ r.ret = None => now2 = clock
          /\ map' = r.map
          /\ access_log' = r.access_log
          /\ clock' = now2
          /\ last' = Call("get", k, FALSE, r)
          /\ history' = IF r.ret = None
                        THEN history
                        ELSE Lapse([history EXCEPT ![k].touched_at = Some(now2)], now2)
          /\ UNCHANGED duration

Remove(k) ==
    LET r == remove(map, access_log, k)
    IN  /\ map' = r.map
        /\ access_log' = r.access_log
        /\ last' = Call("remove", k, FALSE, r)
        /\ history' = [history EXCEPT ![k] = Forgotten]
        /\ UNCHANGED <<duration, clock>>

\* Time passes between two calls.
Tick ==
    /\ clock < LastReading
    /\ clock' = clock + 1
    /\ last' = Call("tick", "-", FALSE, Nothing)
    /\ history' = Lapse(history, clock + 1)
    /\ UNCHANGED <<map, access_log, duration>>

Next ==
    \/ \E k \in Keys, v \in Vals : Insert(k, v)
    \/ \E k \in Keys : Get(k)
    \/ \E k \in Keys : Remove(k)
    \/ Tick

Spec == Init /\ [][Next]_vars

\* ------------------------------------------------- what a caller observes
\* The results get(k) can return when it is called in the state (m, log) at
\* clock reading t: none when the call panics.
GetRetsIn(m, log, k, t) == {r.ret : r \in get(m, log, k, t, t)}

GetRets(k, t) == GetRetsIn(map, access_log, k, t)

\* get(k) returns a value / returns no value.
HitsIn(m, log, k, t) ==
    /\ GetRetsIn(m, log, k, t) # {}
    /\ \A r \in GetRetsIn(m, log, k, t) : r # None

Hits(k, t) == HitsIn(map, access_log, k, t)

Misses(k, t) == \A r \in GetRets(k, t) : r = None

\* The readings of the clock from now on.
Future == clock..LastReading

\* k was inserted, was not removed since, and no more than duration has
\* passed since its last access.
Known(k) == history[k] # Forgotten

\* The time from the true last access of a known key to the reading t.
Age(k, t) == t - Touched(history[k])

Returned(call) == call.op \in {"insert", "get"} /\ ~call.panicked

\* -------------------------------------------------------------------- C1
\* C1 as stated, with "within ttl" as the spec defines it (an entry expires
\* once now - last access > ttl), for a ttl greater than zero: at every
\* reading of the clock from now on, get(k) returns a value iff k was
\* inserted, was not removed since, and its true last access is at most ttl
\* before that reading.
C1_VisibleWithinTtl ==
    duration > 0 =>
        \A k \in Keys : \A t \in Future :
            Hits(k, t) <=> (Known(k) /\ Age(k, t) <= duration)

\* C1 amended: at every reading of the clock from now on, get(k) returns a
\* value iff k was inserted, was not removed since, and its true last
\* access is less than ttl before that reading, whichever earlier calls
\* ran cleanup.
C1_VisibleBeforeTtl ==
    \A k \in Keys : \A t \in Future :
        Hits(k, t) <=> (Known(k) /\ Age(k, t) < duration)

\* A key accessed again after its record was logged is returned while
\* another key, whose entry is still in the map, is exactly ttl old and is
\* not.
C1_Witness ==
    \E k, j \in Keys :
        /\ Known(k) /\ Access(Touched(history[k]), k) \notin BagToSet(access_log)
        /\ Age(k, clock) < duration /\ Hits(k, clock)
        /\ Known(j) /\ j \in DOMAIN map
        /\ Age(j, clock) = duration /\ Misses(j, clock)

\* -------------------------------------------------------------------- C2
\* C2: when an insert or get call (on any key) returns, no key that was
\* untouched for longer than ttl when the call read the clock has an Entry,
\* unless the call inserted it.
C2_StaleKeysSwept ==
    [][Returned(last') =>
        \A k \in Keys :
            (~Known(k) /\ ~(last'.op = "insert" /\ last'.key = k))
                => k \notin DOMAIN map']_vars

\* With a ttl greater than zero, a call on one key has evicted another key,
\* which was untouched for longer than ttl.
C2_Witness ==
    /\ Returned(last)
    /\ duration > 0
    /\ \E k \in last.evicted : k # last.key /\ ~Known(k)

\* -------------------------------------------------------------------- C3
\* C3: when a get hit on k returns at time t, k is in the map and get(k)
\* returns a value at every later reading t' of the clock with t' - t < ttl,
\* also when the time since the insert of k exceeds ttl; and whatever calls
\* follow, get(k) returns a value at every reading less than ttl after the
\* true last access of k.
C3_GetResetsTheClock ==
    /\ (last.op = "get" /\ last.ret # None) =>
          /\ last.key \in DOMAIN map
          /\ \A t \in Future : t - clock < duration => Hits(last.key, t)
    /\ \A k \in Keys :
          Known(k) => \A t \in Future : Age(k, t) < duration => Hits(k, t)

\* ttl = 3, insert at 3, get at 5: at 7 the key is still returned, 4 > ttl
\* after its insert (the spec's ttl = 10, 0, 9, 15 on a coarser clock).
\* The record (3, k) is that of an insert: no call returns before 3, and a
\* record cleanup puts back by 5 is of 2 or earlier.
C3_Witness ==
    \E k \in Keys :
        /\ duration = 3 /\ clock = 5
        /\ last.op = "get" /\ last.key = k /\ last.ret # None
        /\ access_log = SetToBag({Access(3, k)})
        /\ Hits(k, 7)

\* -------------------------------------------------------------------- C4
\* The spec's scenario, for any two keys: a key untouched for longer than
\* ttl is not returned, and a key inserted less than ttl ago is returned
\* with its value.
C4_Scenario ==
    \A a, b \in Keys :
        (a # b /\ ~Known(a) /\ Known(b) /\ Age(b, clock) < duration) =>
            /\ Misses(a, clock)
            /\ GetRets(b, clock) = {history[b].value}

\* C4: an insert or get of one key changes for no other key what get
\* returns at any reading of the clock from the end of the call on; and the
\* scenario holds in every state.
C4_ExpiryIsPerKey ==
    /\ []C4_Scenario
    /\ [][Returned(last') =>
             \A j \in Keys \ {last'.key} : \A t \in clock'..LastReading :
                 GetRetsIn(map', access_log', j, t) = GetRetsIn(map, access_log, j, t)]_vars

\* ttl = 3, insert(a, 1) at 3, insert(b, 2) at 5: at 7 get(a) returns
\* nothing and get(b) returns 2 (the spec's ttl = 100, 0, 50, 120 on a
\* coarser clock: a is older than ttl, b is not, b came while a was live).
C4_Witness ==
    /\ duration = 3 /\ clock = 7
    /\ last.op = "tick"
    /\ DOMAIN map = {"a", "b"}
    /\ map["a"] = Value(3, 1)
    /\ map["b"] = Value(5, 2)
    /\ history["b"] = Inserted(5, 2)
    /\ GetRets("a", clock) = {None}
    /\ GetRets("b", clock) = {Some(2)}

\* -------------------------------------------------------------------- C5
\* C5: whenever get(k) returns a value it is the value of the most recent
\* insert(k, v); and for a ttl greater than zero, a get(k) that follows an
\* insert(k, v) with no time elapsed returns v.
C5_GetReturnsLastInsert ==
    /\ \A k \in Keys : \A t \in Future : \A r \in GetRets(k, t) :
          r # None => (Known(k) /\ r = history[k].value)
    /\ (last.op = "insert" /\ ~last.panicked /\ duration > 0) =>
          GetRets(last.key, clock) = {history[last.key].value}

\* An insert has replaced another value, and an immediate get returns the
\* new one.
C5_Witness ==
    /\ last.op = "insert" /\ ~last.panicked /\ duration > 0
    /\ last.ret # None
    /\ last.ret # history[last.key].value
    /\ GetRets(last.key, clock) = {history[last.key].value}

\* -------------------------------------------------------------------- C6
\* C6: insert(k, v2) on a key that has an Entry and was last accessed less
\* than ttl ago returns the value stored for k, stores v2, and makes get(k)
\* return v2 at every reading of the clock less than ttl after this insert.
C6_InsertOverwrites ==
    [][\A k \in Keys :
        (/\ last'.op = "insert" /\ last'.key = k /\ ~last'.panicked
         /\ k \in DOMAIN map /\ Known(k) /\ Age(k, clock) < duration) =>
            /\ last'.ret = history[k].value
            /\ k \in DOMAIN map'
            /\ Some(map'[k].value) = history'[k].value
            /\ \A t \in clock'..LastReading :
                  t - clock' < duration =>
                      GetRetsIn(map', access_log', k, t) = {history'[k].value}]_vars

\* An insert has returned the value it replaced by another one, on a key
\* whose record in the log is by now ttl or more old.
C6_Witness ==
    /\ last.op = "insert" /\ ~last.panicked
    /\ last.ret # None
    /\ last.ret # history[last.key].value
    /\ \E r \in BagToSet(access_log) :
          r.key = last.key /\ clock - r.instant >= duration

\* -------------------------------------------------------------------- C7
\* C7: remove(k) on a key that has an Entry returns the value stored for
\* it and leaves k without Entry; only insert(k, v) gives a key an Entry;
\* and as long as k was not inserted since its removal, get(k) returns no
\* value at any reading of the clock.
C7_RemoveTakesOut ==
    /\ [][
          /\ \A k \in Keys :
                (last'.op = "remove" /\ last'.key = k /\ k \in DOMAIN map) =>
                    /\ last'.ret = Some(map[k].value)
                    /\ Known(k) => last'.ret = history[k].value
                    /\ k \notin DOMAIN map'
          /\ \A k \in Keys :
                (k \notin DOMAIN map /\ k \in DOMAIN map') =>
                    (last'.op = "insert" /\ last'.key = k)
       ]_vars
    /\ [](\A k \in Keys : ~Known(k) => \A t \in Future : Misses(k, t))

\* A remove has returned a value, the key's record is still in the log,
\* and get of the key returns nothing.
C7_Witness ==
    /\ last.op = "remove" /\ last.ret # None
    /\ \E r \in BagToSet(access_log) : r.key = last.key
    /\ GetRets(last.key, clock) = {None}

\* -------------------------------------------------------------------- C8
\* C8: remove(k) on a key with no Entry returns nothing and changes neither
\* the map, nor the access log, nor the duration.
C8_RemoveAbsentChangesNothing ==
    [][\A k \in Keys :
        (last'.op = "remove" /\ last'.key = k /\ k \notin DOMAIN map) =>
            /\ last'.ret = None
            /\ map' = map
            /\ access_log' = access_log
            /\ duration' = duration]_vars

\* A remove has missed a key of which the log still holds a record, while
\* the entry of another key is older than ttl and not yet evicted.
C8_Witness ==
    /\ last.op = "remove" /\ last.ret = None
    /\ \E r \in BagToSet(access_log) : r.key = last.key
    /\ \E j \in DOMAIN map : clock - map[j].last_access > duration

\* -------------------------------------------------------------------- C9
\* C9: a get(k) that misses returns nothing, leaves k without Entry, adds
\* no record to the access log, and changes the map only by evicting
\* entries whose last access is ttl or more in the past.
C9_GetNeverInserts ==
    [][\A k \in Keys :
        (last'.op = "get" /\ last'.key = k /\ ~last'.panicked
         /\ last'.ret = None) =>
            /\ k \notin DOMAIN map'
            /\ \A r \in BagToSet(access_log') :
                  r.key = k => CopiesIn(r, access_log') <= CopiesIn(r, access_log)
            /\ BagCardinality(access_log') <= BagCardinality(access_log)
            /\ DOMAIN map' \subseteq DOMAIN map
            /\ \A j \in DOMAIN map' : map'[j] = map[j]
            /\ \A j \in DOMAIN map \ DOMAIN map' :
                  clock - map[j].last_access >= duration]_vars

\* A get has missed a key that had no Entry, and its cleanup has evicted
\* the other key.
C9_Witness ==
    /\ last.op = "get" /\ ~last.panicked /\ last.ret = None
    /\ last.evicted # {}
    /\ last.key \notin last.evicted

\* ------------------------------------------------------------------- C10
\* C10: when the clock reads less than ttl, so that now - ttl is not
\* representable, insert and get do not fail.
C10_DeadlineSaturates ==
    (last.op \in {"insert", "get"} /\ clock < duration) => ~last.panicked

\* ------------------------------------------------------------------- C11
\* C11: no call of new, insert, get or remove fails, whatever the state,
\* the reading of the clock and the ttl; a get or remove of a key that has
\* no Entry returns nothing.
C11_NoCallFails ==
    /\ ~last.panicked
    /\ \A k \in Keys \ DOMAIN map :
          /\ remove(map, access_log, k).ret = None
          /\ \A r \in GetRets(k, clock) : r = None

\* ------------------------------------------------------------------- C12
\* C12 as stated, for a ttl greater than zero: a cleanup pass evicts an
\* entry only when now - last_access is strictly greater than ttl, and an
\* entry whose age is exactly ttl is still returned by get.
C12_EvictsOnlyPastTtl ==
    duration > 0 =>
        /\ \A c \in cleanup(map, access_log, clock) :
              \A j \in DOMAIN map \ DOMAIN c.map :
                  clock - map[j].last_access > duration
        /\ \A j \in DOMAIN map :
              clock - map[j].last_access = duration => Hits(j, clock)

\* C12 amended: a cleanup pass at the reading t evicts the entries with
\* t - last_access greater than or equal to ttl, and only those: an entry
\* whose age is exactly ttl is removed and get does not return it, an entry
\* whose age is less than ttl is kept.
C12_EvictsFromTtlOn ==
    \A t \in Future : \A c \in cleanup(map, access_log, t) :
        /\ \A j \in DOMAIN map \ DOMAIN c.map :
              t - map[j].last_access >= duration
        /\ \A j \in DOMAIN map :
              t - map[j].last_access >= duration => j \notin DOMAIN c.map
        /\ \A j \in DOMAIN map :
              t - map[j].last_access = duration => Misses(j, t)

\* With a ttl greater than zero, a call on one key has evicted another key
\* whose last access was exactly ttl before.
C12_Witness ==
    /\ Returned(last)
    /\ duration > 0
    /\ \E j \in last.evicted :
          j # last.key /\ Known(j) /\ Age(j, clock) = duration

\* ------------------------------------------------------------------- C13
\* C13: remove(k) leaves the access log exactly as it was, the records of k
\* included, and takes no other key out of the map, however old its entry.
C13_RemoveLeavesTheLog ==
    [][last'.op = "remove" =>
        /\ access_log' = access_log
        /\ \A j \in DOMAIN map \ {last'.key} :
              j \in DOMAIN map' /\ map'[j] = map[j]]_vars

\* A remove has taken out a key whose record stays in the log, while the
\* entry of another key, older than ttl, is still in the map.
C13_Witness ==
    /\ last.op = "remove" /\ last.ret # None
    /\ \E r \in BagToSet(access_log) : r.key = last.key
    /\ \E j \in DOMAIN map : clock - map[j].last_access > duration

\* ------------------------------------------------------------------- C14
\* C14 as stated, in its weakest reading: when insert(k, v) returns, whether
\* k was new or present, the access log holds a record (now, k) with the
\* instant the call stamped on the entry.
C14_EveryInsertIsLogged ==
    (last.op = "insert" /\ ~last.panicked) =>
        Access(map[last.key].last_access, last.key) \in BagToSet(access_log)

\* C14 amended: insert(k, v) adds one record (now, k), with the instant it
\* stamps on the entry, to the access log its cleanup pass has left when k
\* has no Entry after that pass; when k has one, the insert returns its
\* value and leaves the access log as the cleanup pass has left it.
C14_OnlyNewKeysAreLogged ==
    [][(last'.op = "insert" /\ ~last'.panicked) =>
        LET k == last'.key
        IN  /\ map'[k].last_access = clock'
            /\ \E c \in cleanup(map, access_log, clock) :
                  /\ (last'.ret = None) <=> (k \notin DOMAIN c.map)
                  /\ access_log' = IF last'.ret = None
                                   THEN push(c.access_log, Access(clock', k))
                                   ELSE c.access_log]_vars

\* An insert has overwritten an entry, and the only records of its key in
\* the access log are older than the instant it stamped.
C14_Witness ==
    /\ last.op = "insert" /\ ~last.panicked
    /\ last.ret # None
    /\ \E r \in BagToSet(access_log) : r.key = last.key
    /\ \A r \in BagToSet(access_log) :
          r.key = last.key => r.instant < map[last.key].last_access

\* ------------------------------------------------------------------- C15
\* C15 as stated, in its weakest reading: when a get(k) that hits returns,
\* the access log holds a record (now, k) with the instant the call stamped
\* on the entry.
C15_EveryHitIsLogged ==
    (last.op = "get" /\ last.ret # None) =>
        Access(map[last.key].last_access, last.key) \in BagToSet(access_log)

\* C15 amended: a get(k) that hits stamps the entry with the instant it
\* reads, and adds no record: it leaves the access log as its cleanup pass
\* has left it, which holds no more records than before the call.
C15_HitsAreNotLogged ==
    [][(last'.op = "get" /\ last'.ret # None) =>
        LET k == last'.key
        IN  /\ map'[k].last_access = clock'
            /\ \E c \in cleanup(map, access_log, clock) :
                  /\ k \in DOMAIN c.map
                  /\ access_log' = c.access_log
            /\ BagCardinality(access_log') <= BagCardinality(access_log)]_vars

\* A get has hit, and the only records of its key in the access log are
\* older than the instant it stamped.
C15_Witness ==
    /\ last.op = "get" /\ last.ret # None
    /\ \E r \in BagToSet(access_log) : r.key = last.key
    /\ \A r \in BagToSet(access_log) :
          r.key = last.key => r.instant < map[last.key].last_access

\* ------------------------------------------------------------------- C16
\* A call that stamps an entry: an insert that returns, or a get that hits.
Stamps(call) ==
    \/ call.op = "insert" /\ ~call.panicked
    \/ call.op = "get" /\ call.ret # None

\* C16 as stated: the instant an insert or a get stamps on the entry is the
\* reading from which its cleanup pass derived the deadline.
C16_OneReadingPerCall ==
    [][Stamps(last') => map'[last'.key].last_access = clock]_vars

\* C16 amended: an insert, and a get that hits, read the clock twice.  The
\* cleanup pass derives the deadline from the first reading: it evicts only
\* entries ttl or more old at that reading and keeps every entry younger
\* than ttl at that reading.  The entry is stamped with the second reading,
\* which is the first or a later one.  A get that misses reads it once.
C16_TwoReadingsPerCall ==
    [][Returned(last') =>
        /\ \A j \in last'.evicted : clock - map[j].last_access >= duration
        /\ \A j \in DOMAIN map \ {last'.key} :
              clock - map[j].last_access < duration => j \in DOMAIN map'
        /\ Stamps(last') =>
              /\ map'[last'.key].last_access = clock'
              /\ clock' >= clock
        /\ ~Stamps(last') => clock' = clock]_vars

\* With a ttl greater than zero, a call that stamped the reading of the
\* clock on its key has returned and left in the map another key that is
\* ttl old at that reading: its cleanup pass took an earlier reading.
C16_Witness ==
    /\ Stamps(last)
    /\ duration > 0
    /\ map[last.key].last_access = clock
    /\ \E j \in DOMAIN map \ {last.key} :
          /\ clock - map[j].last_access = duration
          /\ \E r \in BagToSet(access_log) :
                r.key = j /\ r.instant <= map[j].last_access

\* ------------------------------------------------------------------- C17
\* C17 as stated: in the state a cleanup pass returns in, every key of the
\* map has a record in the access log whose instant equals the entry's
\* last_access.
C17_AuthoritativeRecord ==
    \A c \in cleanup(map, access_log, clock) :
        \A k \in DOMAIN c.map :
            Access(c.map[k].last_access, k) \in BagToSet(c.access_log)

\* C17 amended: in every state, and in the state a cleanup pass returns in
\* at any reading of the clock, every key of the map has a record in the
\* access log whose instant is at most the entry's last_access, so that it
\* is due by the time the entry expires; its instant need not equal the
\* last_access.
C17_RecordNoLaterThanAccess ==
    /\ \A k \in DOMAIN map :
          \E r \in BagToSet(access_log) :
              r.key = k /\ r.instant <= map[k].last_access
    /\ \A t \in Future : \A c \in cleanup(map, access_log, t) :
          \A k \in DOMAIN c.map :
              \E r \in BagToSet(c.access_log) :
                  r.key = k /\ r.instant <= c.map[k].last_access

\* A get has missed, so that the state is the one its cleanup pass returned
\* in; the pass has evicted a key, and the only records of a key it kept
\* are older than the entry's last_access.
C17_Witness ==
    /\ last.op = "get" /\ ~last.panicked /\ last.ret = None
    /\ last.evicted # {}
    /\ \E k \in DOMAIN map :
          /\ \E r \in BagToSet(access_log) : r.key = k
          /\ \A r \in BagToSet(access_log) :
                r.key = k => r.instant < map[k].last_access

\* ------------------------------------------------------------------- C18
\* C18: in the state a cleanup pass returns in, at any reading t of the
\* clock, the access log is empty or all its records, the earliest
\* included, have an instant strictly greater than the deadline t - ttl;
\* so it is in the state a get that misses returns in.
C18_NoDueRecordLeft ==
    /\ \A t \in Future : \A c \in cleanup(map, access_log, t) :
          \A r \in BagToSet(c.access_log) : r.instant > t - duration
    /\ (last.op = "get" /\ ~last.panicked /\ last.ret = None) =>
          \A r \in peek(access_log) : r.instant > clock - duration

\* A get has missed, so that the state is the one its cleanup pass returned
\* in: the pass has evicted a key and has left records in the access log,
\* for a ttl greater than zero.
C18_Witness ==
    /\ last.op = "get" /\ ~last.panicked /\ last.ret = None
    /\ duration > 0
    /\ last.evicted # {}
    /\ access_log # EmptyBag

\* ------------------------------------------------------------------- C19
\* The passes that can run from the present state at the reading t, counted;
\* none when the deadline is not representable.
Passes(t) ==
    IF cleanup_panics(t)
    THEN {}
    ELSE cleanup_iterations(map, access_log, t - duration, NoIteration)

\* C19: a cleanup pass run at any reading of the clock returns; it never
\* pops a record it has put back; and it makes at most as many iterations
\* as the access log held records when it started.  The counted passes
\* return in the states the passes of insert and get return in.
C19_PassIsBounded ==
    \A t \in Future :
        /\ \A x \in Passes(t) :
              /\ ~x.run.again
              /\ x.run.iterations <= BagCardinality(access_log)
              /\ \A r \in BagToSet(x.run.requeued) : r.instant > t - duration
        /\ {[map |-> x.map, access_log |-> x.access_log] : x \in Passes(t)}
              = cleanup(map, access_log, t)
        /\ ~cleanup_panics(t) => Passes(t) # {}

\* A pass that runs now pops every record of a log of MaxLog records and
\* puts one back.
C19_Witness ==
    \E x \in Passes(clock) :
        /\ BagCardinality(access_log) = MaxLog
        /\ x.run.iterations = MaxLog
        /\ x.run.requeued # EmptyBag

\* ------------------------------------------------------------------- C20
\* The records of the key k that are at or before the deadline t - ttl in
\* the present access log, each of which a pass at the reading t pops.
DueRecords(k, t) ==
    LET due == {r \in BagToSet(access_log) :
                    r.key = k /\ r.instant <= t - duration}
    IN  [r \in due |-> CopiesIn(r, access_log)]

\* C20: a cleanup pass, at any reading t of the clock, keeps every entry
\* whose last_access is greater than the deadline with its value and its
\* last_access unchanged, and for each due record of such a key that it
\* pops it puts back exactly one record, which carries the entry's
\* last_access.
C20_RequeueKeepsTheEntry ==
    \A t \in Future : \A c \in cleanup(map, access_log, t) :
        \A k \in DOMAIN map :
            map[k].last_access > t - duration =>
                LET fresh == Access(map[k].last_access, k)
                IN  /\ k \in DOMAIN c.map
                    /\ c.map[k] = map[k]
                    /\ CopiesIn(fresh, c.access_log) =
                          CopiesIn(fresh, access_log)
                            + BagCardinality(DueRecords(k, t))
                    /\ \A r \in BagToSet(c.access_log) :
                          r.key = k /\ r # fresh =>
                              CopiesIn(r, c.access_log) = CopiesIn(r, access_log)

\* A pass that runs now pops a due record of a key whose last access is
\* after the deadline, and evicts the other key.
C20_Witness ==
    \E c \in cleanup(map, access_log, clock) :
        \E k \in DOMAIN c.map :
            /\ map[k].last_access > clock - duration
            /\ DueRecords(k, clock) # EmptyBag
            /\ DOMAIN map \ DOMAIN c.map # {}

\* ------------------------------------------------------------------- C21
\* C21: a cleanup pass that pops a due record of a key whose entry has a
\* last_access at or before the deadline takes the entry out of the map and
\* puts no record back for it: the records it puts back are of keys it
\* keeps, none of them is popped again in the pass (as a record of an
\* evicted entry, being due, would be), and the records of the evicted key
\* left in the access log are those later than the deadline that were
\* there before.
C21_ExpiredEntryIsRemoved ==
    /\ \A c \in cleanup(map, access_log, clock) :
          \A k \in DOMAIN map :
              (/\ map[k].last_access <= clock - duration
               /\ DueRecords(k, clock) # EmptyBag) =>
                  /\ k \notin DOMAIN c.map
                  /\ \A r \in BagToSet(c.access_log) :
                        r.key = k =>
                            /\ r.instant > clock - duration
                            /\ CopiesIn(r, c.access_log) = CopiesIn(r, access_log)
    /\ \A x \in Passes(clock) :
          /\ ~x.run.again
          /\ \A r \in BagToSet(x.run.requeued) :
                /\ r.key \in DOMAIN x.map
                /\ map[r.key].last_access > clock - duration

\* With a ttl greater than zero, a call has evicted its own key and another
\* key, each through a due record, and has returned.
C21_Witness ==
    /\ Returned(last)
    /\ duration > 0
    /\ last.evicted = Keys

\* ------------------------------------------------------------------- C22
\* The due records of the present access log whose key has no entry.
DueOrphans ==
    {r \in BagToSet(access_log) :
        r.instant <= clock - duration /\ r.key \notin DOMAIN map}

\* C22: a cleanup pass that pops due records of keys without entry drops
\* them, gives those keys no entry and puts no record back for them; when
\* all due records are such, the map is left as it was; and the pass goes
\* on to the records behind them, leaving no due record.
C22_OrphanIsDiscarded ==
    \A c \in cleanup(map, access_log, clock) :
        /\ \A k \in Keys \ DOMAIN map :
              /\ k \notin DOMAIN c.map
              /\ \A r \in BagToSet(c.access_log) :
                    r.key = k =>
                        /\ r.instant > clock - duration
                        /\ CopiesIn(r, c.access_log) = CopiesIn(r, access_log)
        /\ (\A r \in BagToSet(access_log) :
                r.instant <= clock - duration => r \in DueOrphans) =>
              /\ c.map = map
              /\ \A r \in BagToSet(access_log) :
                    CopiesIn(r, c.access_log) =
                        IF r \in DueOrphans THEN 0 ELSE CopiesIn(r, access_log)
              /\ BagToSet(c.access_log) \subseteq BagToSet(access_log)
        /\ DueOrphans # {} =>
              \A r \in BagToSet(c.access_log) : r.instant > clock - duration

\* A pass that runs now pops the record of a removed key first and then a
\* due record of the other key, which has an entry.
C22_Witness ==
    \E o \in DueOrphans : \E r \in BagToSet(access_log) :
        /\ ~cleanup_panics(clock)
        /\ r.key \in DOMAIN map
        /\ o.instant < r.instant
        /\ r.instant <= clock - duration

\* ------------------------------------------------------------------- C23
\* C23: the record on top of the access log, which a cleanup pass examines
\* and pops, has the least instant of all its records, whatever calls put
\* them there; and a pass returns in one state only, whichever of several
\* records with the same instant it pops first: the same keys are evicted
\* and the same records are left.
C23_EarliestFirst ==
    /\ access_log # EmptyBag => peek(access_log) # {}
    /\ \A r \in peek(access_log) : \A s \in BagToSet(access_log) :
          r.instant <= s.instant
    /\ Cardinality(cleanup(map, access_log, clock)) <= 1
    /\ \A x, y \in Passes(clock) : x.map = y.map /\ x.run = y.run

\* The two records on top have the same instant and are due; the entry of
\* one key has expired, the other key was accessed after the deadline.
C23_Witness ==
    \E r, s \in peek(access_log) :
        /\ r.key # s.key
        /\ r.instant <= clock - duration
        /\ {r.key, s.key} \subseteq DOMAIN map
        /\ map[r.key].last_access <= clock - duration
        /\ map[s.key].last_access > clock - duration

\* ------------------------------------------------------------------- C24
\* C24: insert(k, v) on a key whose entry is ttl or more old when the call
\* reads the clock (older than ttl included) and was not swept yet returns
\* nothing; its cleanup pass has evicted the old entry, the new entry has
\* the value v, the instant of this insert and a record of its own; and
\* get(k) returns v at every reading less than ttl after this insert.
C24_InsertOverExpired ==
    [][\A k \in Keys :
        (/\ last'.op = "insert" /\ last'.key = k /\ ~last'.panicked
         /\ k \in DOMAIN map
         /\ clock - map[k].last_access >= duration) =>
            /\ last'.ret = None
            /\ k \in last'.evicted
            /\ map'[k].last_access = clock'
            /\ Some(map'[k].value) = history'[k].value
            /\ Access(clock', k) \in BagToSet(access_log')
            /\ \A t \in clock'..LastReading :
                  t - clock' < duration =>
                      GetRetsIn(map', access_log', k, t) = {history'[k].value}]_vars

\* With a ttl greater than zero, an insert has returned nothing although
\* its key had an entry, which its cleanup pass evicted; get returns the
\* new value.
C24_Witness ==
    /\ last.op = "insert" /\ ~last.panicked
    /\ duration > 0
    /\ last.ret = None
    /\ last.key \in last.evicted
    /\ GetRets(last.key, clock) = {history[last.key].value}

\* ------------------------------------------------------------------- C25
\* C25: in every state remove(k) returns the value stored for k when k has
\* an entry, however old the entry is, and nothing only when k has none;
\* so it does for an entry older than ttl that no insert or get has swept
\* and that get would not return.
C25_RemoveReturnsUnswept ==
    \A k \in Keys :
        LET r == remove(map, access_log, k)
        IN  /\ k \in DOMAIN map => r.ret = Some(map[k].value)
            /\ r.ret = None => k \notin DOMAIN map
            /\ k \notin DOMAIN r.map

\* With a ttl greater than zero, a key has an entry older than ttl, not
\* swept: get(k) would return nothing, remove(k) returns its value.
C25_Witness ==
    \E k \in DOMAIN map :
        /\ duration > 0
        /\ clock - map[k].last_access > duration
        /\ GetRets(k, clock) = {None}
        /\ remove(map, access_log, k).ret = Some(map[k].value)

\* ------------------------------------------------------------------- C26
\* The records of the key k in the present access log.
RecordsOf(k) ==
    LET own == {r \in BagToSet(access_log) : r.key = k}
    IN  [r \in own |-> CopiesIn(r, access_log)]

\* C26: while the access log holds, besides the record of the entry of k,
\* a record of an earlier entry of k that was removed, get(k) returns a
\* value at every reading less than ttl after the last access of the entry
\* and returns nothing at every reading ttl or more after it.
C26_OrphanDoesNotEvict ==
    \A k \in DOMAIN map :
        BagCardinality(RecordsOf(k)) >= 2 =>
            /\ Known(k) => map[k].last_access = Touched(history[k])
            /\ \A t \in Future :
                  /\ t - map[k].last_access < duration => Hits(k, t)
                  /\ t - map[k].last_access >= duration => Misses(k, t)

\* The record of a removed entry of k is due, the entry k has now was last
\* accessed after the deadline and has its own record; get(k) returns its
\* value now and nothing once ttl has passed since that access.
C26_Witness ==
    \E k \in DOMAIN map :
        /\ Known(k)
        /\ Access(map[k].last_access, k) \in BagToSet(access_log)
        /\ \E o \in BagToSet(access_log) :
              /\ o.key = k
              /\ o.instant < map[k].last_access
              /\ o.instant <= clock - duration
        /\ map[k].last_access > clock - duration
        /\ GetRets(k, clock) = {history[k].value}
        /\ Misses(k, map[k].last_access + duration)

\* ------------------------------------------------------------------- C27
\* C27: in every state between two calls, every key that has an entry has
\* a record in the access log whose instant is less than or equal to the
\* entry's last_access.
C27_EveryEntryHasARecord ==
    \A k \in DOMAIN map :
        \E r \in DOMAIN RecordsOf(k) : r.instant <= map[k].last_access

\* Both keys have an entry and one record each: that of one key carries
\* the entry's last_access, that of the other an earlier instant.
C27_Witness ==
    \E j, k \in DOMAIN map :
        /\ BagCardinality(access_log) = 2
        /\ RecordsOf(j) = SetToBag({Access(map[j].last_access, j)})
        /\ \E r \in DOMAIN RecordsOf(k) : r.instant < map[k].last_access

\* ------------------------------------------------------------------- C28
\* The executions in which remove is never called.
NextNoRemove ==
    \/ \E k \in Keys, v \in Vals : Insert(k, v)
    \/ \E k \in Keys : Get(k)
    \/ Tick

SpecNoRemove == Init /\ [][NextNoRemove]_vars

\* C28: when remove is never called, in every state the access log holds
\* exactly one record of each key that has an entry and none of a key that
\* has no entry, so that it holds as many records as the map has entries.
C28_OneRecordPerKey ==
    /\ \A k \in Keys :
          BagCardinality(RecordsOf(k)) = IF k \in DOMAIN map THEN 1 ELSE 0
    /\ BagCardinality(access_log) = Cardinality(DOMAIN map)

\* With a ttl greater than zero, a get has hit a key whose one record is
\* older than the instant it stamped, and its cleanup pass has evicted the
\* other key together with its record.
C28_Witness ==
    /\ last.op = "get" /\ last.ret # None
    /\ duration > 0
    /\ last.evicted # {}
    /\ \E r \in BagToSet(access_log) :
          /\ access_log = SetToBag({r})
          /\ r.key = last.key
          /\ r.instant < map[last.key].last_access

====
